---------------------------- MODULE Spec2Model ----------------------------
(***************************************************************************)
(* Model of the mastery-tracking engine of src/src/matchGameScene.js:      *)
(* the progress store (normalizeState, initProgress, loadProgress,         *)
(* saveProgress), the round composer (MatchGameScene.buildQuestion with    *)
(* shuffleInPlace and pickLearnedDistractors) and the attempt recorder     *)
(* (MatchGameScene.recordAttempt).                                         *)
(*                                                                         *)
(* Symbol ids are the positive integers 1..NumSymbols in catalog order;    *)
(* String(id) is injective on them, so the keys of state.symbols are the   *)
(* ids themselves.  The rng() draws that decide a round's kind and target  *)
(* are nondeterministic choices; see shuffleChoices for the others.        *)
(***************************************************************************)
EXTENDS Integers, Sequences, FiniteSets, TLC

\* ------------------------------------------------------------------------
\* Bounds of the model.
\* ------------------------------------------------------------------------

\* Number of symbols in the catalog (toddlerData.symbols after filtering).
NumSymbols == 4

\* Number of recordAttempt invocations explored in one run that do not
\* promote, and number of those that do.
MaxCalls == 1

\* ------------------------------------------------------------------------
\* Program constants.
\* ------------------------------------------------------------------------

MAX_STAGE == 4
PROMOTE_STREAK == 5
WINDOW_ATTEMPTS == 8
MAX_ERRORS_IN_WINDOW == 1

\* JavaScript's null (as in `first ?? null`, `currentLearningId == null`).
\* Catalog ids are positive, so 0 never names a symbol.
Null == 0

\* The catalog: this.symbols.map((s) => s.id), in its fixed order.
Catalog == [i \in 1..NumSymbols |-> i]

CatalogIds == {Catalog[i] : i \in 1..Len(Catalog)}

\* An id that is not in the catalog (an entry left from an earlier, larger
\* catalog, or a stale currentLearningId).
StaleId == NumSymbols + 1

Max(a, b) == IF a >= b THEN a ELSE b
Min(a, b) == IF a <= b THEN a ELSE b

\* Array.prototype.slice(-n): the last n elements.
SliceLast(s, n) == IF Len(s) <= n THEN s ELSE SubSeq(s, Len(s) - n + 1, Len(s))

\* ------------------------------------------------------------------------
\* Progress store.
\* ------------------------------------------------------------------------

\* The entry literal of initProgress and loadProgress.
NewEntry ==
    [status |-> "NOT_INTRODUCED", success_streak |-> 0, total_attempts |-> 0,
     last_seen_timestamp |-> 0, recent |-> << >>, stage4_success |-> FALSE]

\* What the try block of loadProgress has in hand before normalizeState,
\* by kind:
\*   "absent"      getItem returns null, so "" is parsed: SyntaxError -> null
\*   "throws"      getItem throws
\*   "unparseable" the string is not JSON: safeParseJSON returns null
\*   "notObject"   the JSON value is not an object
\*   "object"      an object; version is its version (0 when it has none)
\*                 and hasSymbols tells whether its symbols is an object
InvalidKinds == {"absent", "throws", "unparseable", "notObject"}

\* normalizeState without line 87.
normalizeAnyVersion(raw) == raw.kind = "object" /\ raw.hasSymbols

\* normalizeState(safeParseJSON(getItem(...) || "")) inside the try: TRUE
\* when a state comes back, FALSE when null does.
normalizeState(raw) ==
    /\ raw.kind = "object"
    /\ raw.version = 1
    /\ raw.hasSymbols

initProgress(symbolIds) ==
    LET first == IF Len(symbolIds) > 0 THEN symbolIds[1] ELSE Null
        symbols == [k \in {symbolIds[i] : i \in 1..Len(symbolIds)} |->
                      IF k = first
                        THEN [NewEntry EXCEPT !.status = "LEARNING"]
                        ELSE NewEntry]
    IN  [version |-> 1, currentLearningId |-> first, stage |-> 1,
         symbols |-> symbols]

HasEntry(state, id) == id \in DOMAIN state.symbols

\* state.symbols[String(id)]?.status
StatusOf(state, id) ==
    IF HasEntry(state, id) THEN state.symbols[id].status ELSE "undefined"

\* Lines 126-139 giving every catalog id a new entry.
RenewEntries(state, symbolIds) ==
    LET ids == {symbolIds[i] : i \in 1..Len(symbolIds)}
    IN  [state EXCEPT !.symbols =
            [k \in (DOMAIN state.symbols) \cup ids |->
                IF k \in ids THEN NewEntry ELSE state.symbols[k]]]

\* Lines 126-139: every catalog id gets an entry.
EnsureEntries(state, symbolIds) ==
    LET ids == {symbolIds[i] : i \in 1..Len(symbolIds)}
    IN  [state EXCEPT !.symbols =
            [k \in (DOMAIN state.symbols) \cup ids |->
                IF k \in DOMAIN state.symbols THEN state.symbols[k]
                                              ELSE NewEntry]]

\* Math.max(1, Math.min(MAX_STAGE, Number(state.stage) || 1)); 0 is falsy.
ClampStage(raw) == Max(1, Min(MAX_STAGE, IF raw = 0 THEN 1 ELSE raw))

\* The repair without lines 149-151: the keeper is marked, the other
\* LEARNING ids are left as they are.
MarkKeeperOnly(state, symbolIds) ==
    LET ids == {symbolIds[i] : i \in 1..Len(symbolIds)}
        learningIds == SelectSeq(symbolIds,
                          LAMBDA id : StatusOf(state, id) = "LEARNING")
        keeper == IF state.currentLearningId \in ids
                    THEN state.currentLearningId
                  ELSE IF Len(learningIds) > 0 THEN learningIds[1]
                  ELSE IF Len(symbolIds) > 0 THEN symbolIds[1]
                  ELSE Null
    IN  IF keeper # Null
          THEN [state EXCEPT !.currentLearningId = keeper,
                             !.symbols[keeper].status = "LEARNING"]
          ELSE state

\* Lines 141-155: the single-learning repair.
EnforceSingleLearning(state, symbolIds) ==
    LET ids == {symbolIds[i] : i \in 1..Len(symbolIds)}
        learningIds == SelectSeq(symbolIds,
                          LAMBDA id : StatusOf(state, id) = "LEARNING")
        desired == IF state.currentLearningId \in ids
                     THEN state.currentLearningId ELSE Null
        keeper == IF desired # Null THEN desired
                  ELSE IF Len(learningIds) > 0 THEN learningIds[1]
                  ELSE IF Len(symbolIds) > 0 THEN symbolIds[1]
                  ELSE Null
        demoted == [k \in DOMAIN state.symbols |->
                      IF /\ k \in ids
                         /\ state.symbols[k].status = "LEARNING"
                         /\ k # keeper
                        THEN [state.symbols[k] EXCEPT !.status = "LEARNED"]
                        ELSE state.symbols[k]]
    IN  IF keeper # Null
          THEN [state EXCEPT
                  !.currentLearningId = keeper,
                  !.symbols = [demoted EXCEPT ![keeper].status = "LEARNING"]]
          ELSE [state EXCEPT !.symbols = demoted]

\* The parsed object as the state loadProgress goes on with.
StateOfBlob(raw) ==
    [version |-> 1, currentLearningId |-> raw.currentLearningId,
     stage |-> raw.stage, symbols |-> raw.symbols]

loadProgress(symbolIds, raw) ==
    LET state0 == IF normalizeState(raw) THEN StateOfBlob(raw)
                                         ELSE initProgress(symbolIds)
        state1 == EnsureEntries(state0, symbolIds)
        state2 == EnforceSingleLearning(state1, symbolIds)
    IN  [state2 EXCEPT !.stage = ClampStage(state2.stage)]

\* JSON.stringify(state) as safeParseJSON will read it back.
BlobOfState(state) ==
    [kind |-> "object", version |-> state.version, hasSymbols |-> TRUE,
     currentLearningId |-> state.currentLearningId,
     stage |-> state.stage, symbols |-> state.symbols]

\* saveProgress without line 163.
keepStore(state, store, writeOk) == store

\* saveProgress: the new storage content; a failing setItem is swallowed.
saveProgress(state, store, writeOk) ==
    IF writeOk THEN BlobOfState(state) ELSE store

countErrorsInWindow(recent, windowSize) ==
    LET tail == SliceLast(recent, windowSize)
    IN  Cardinality({i \in 1..Len(tail) : ~tail[i]})

\* ------------------------------------------------------------------------
\* Attempt recorder.
\* ------------------------------------------------------------------------

\* this.progress before init() has run.
NoProgress ==
    [version |-> 0, currentLearningId |-> Null, stage |-> 1,
     symbols |-> [k \in {} |-> NewEntry]]

\* Lines 636-638: push, then keep the last WINDOW_ATTEMPTS.
pushRecent(recent, ok) ==
    LET pushed == Append(recent, ok)
    IN  IF Len(pushed) > WINDOW_ATTEMPTS
          THEN SliceLast(pushed, WINDOW_ATTEMPTS) ELSE pushed

\* The bookkeeping with the streak counted for any target (line 645 outside
\* the isLearningTarget test).
touchAndCount(symState, ok, t) ==
    [symState EXCEPT !.total_attempts = @ + 1,
                     !.last_seen_timestamp = t,
                     !.recent = pushRecent(@, ok),
                     !.success_streak = IF ok THEN @ + 1 ELSE @]

\* Lines 634-638: what every recorded attempt does to the target's entry.
touchEntry(symState, ok, t) ==
    [symState EXCEPT !.total_attempts = @ + 1,
                     !.last_seen_timestamp = t,
                     !.recent = pushRecent(@, ok)]

\* Lines 643-654 without line 646.
updateStreakNoFlag(symState, ok, stageUsedNow) ==
    IF ok
      THEN [symState EXCEPT !.success_streak = @ + 1]
      ELSE [symState EXCEPT !.success_streak = Max(0, @ - 1)]

\* Lines 643-654 with a miss wiping the streak.
updateStreakWiping(symState, ok, stageUsedNow) ==
    IF ok
      THEN [symState EXCEPT
              !.success_streak = @ + 1,
              !.stage4_success = IF stageUsedNow >= 4 THEN TRUE ELSE @]
      ELSE [symState EXCEPT !.success_streak = 0]

\* Lines 643-654, the entry of the learning target.
updateStreak(symState, ok, stageUsedNow) ==
    IF ok
      THEN [symState EXCEPT
              !.success_streak = @ + 1,
              !.stage4_success = IF stageUsedNow >= 4 THEN TRUE ELSE @]
      ELSE [symState EXCEPT !.success_streak = Max(0, @ - 1)]

\* Line 647 without Math.min.
advanceStageUncapped(stage, ok) == IF ok THEN stage + 1 ELSE stage

\* Line 647 (a miss leaves the stage alone).
advanceStage(stage, ok) ==
    IF ok THEN Min(MAX_STAGE, (IF stage = 0 THEN 1 ELSE stage) + 1) ELSE stage

\* Lines 661-663.
learnedCountOf(state) ==
    Cardinality({i \in 1..Len(Catalog) :
                    StatusOf(state, Catalog[i]) = "LEARNED"})

\* Line 664 with > for >=.
moreThanThree(learnedCount) == learnedCount > 3

\* Line 664.
canReachStage4(learnedCount) == learnedCount >= 3

\* Lines 666-670 with > for >= on the streak.
eligibleAboveStreak(symState, learnedCount) ==
    /\ symState.success_streak > PROMOTE_STREAK
    /\ countErrorsInWindow(symState.recent, WINDOW_ATTEMPTS)
          <= MAX_ERRORS_IN_WINDOW
    /\ (learnedCount < 3 \/ symState.stage4_success)

\* Lines 666-670.
eligible(symState, learnedCount) ==
    /\ symState.success_streak >= PROMOTE_STREAK
    /\ countErrorsInWindow(symState.recent, WINDOW_ATTEMPTS)
          <= MAX_ERRORS_IN_WINDOW
    /\ (~canReachStage4(learnedCount) \/ symState.stage4_success)

\* Lines 682-684 looking for an id that is LEARNING.
nextLearning(state) ==
    LET hits == SelectSeq(Catalog,
                   LAMBDA id : StatusOf(state, id) = "LEARNING")
    IN  IF Len(hits) = 0 THEN Null ELSE hits[1]

\* Lines 682-684 looking for the first id that is not LEARNING.
nextNotLearning(state) ==
    LET hits == SelectSeq(Catalog,
                   LAMBDA id : StatusOf(state, id) # "LEARNING")
    IN  IF Len(hits) = 0 THEN Null ELSE hits[1]

\* Lines 682-684 scanning the catalog from its end.
lastNotIntroduced(state) ==
    LET hits == SelectSeq(Catalog,
                   LAMBDA id : StatusOf(state, id) = "NOT_INTRODUCED")
    IN  IF Len(hits) = 0 THEN Null ELSE hits[Len(hits)]

\* Lines 682-684: the first catalog id still NOT_INTRODUCED, or Null.
nextNotIntroduced(state) ==
    LET hits == SelectSeq(Catalog,
                   LAMBDA id : StatusOf(state, id) = "NOT_INTRODUCED")
    IN  IF Len(hits) = 0 THEN Null ELSE hits[1]

\* Lines 677-697 without the resets of lines 679 and 680.
promoteKeepingStreak(state, learningId) ==
    LET done == [state EXCEPT !.symbols[learningId].status = "LEARNED"]
        next == nextNotIntroduced(done)
    IN  IF next = Null
          THEN [done EXCEPT !.currentLearningId = Null, !.stage = 1]
          ELSE [done EXCEPT !.currentLearningId = next, !.stage = 1,
                            !.symbols[next].status = "LEARNING"]

\* Lines 677-697 without the stage reset of lines 688 and 694.
promoteKeepingStage(state, learningId) ==
    LET done == [state EXCEPT
                   !.symbols[learningId].status = "LEARNED",
                   !.symbols[learningId].success_streak = 0,
                   !.symbols[learningId].stage4_success = FALSE]
        next == nextNotIntroduced(done)
    IN  IF next = Null
          THEN [done EXCEPT !.currentLearningId = Null]
          ELSE [done EXCEPT !.currentLearningId = next,
                            !.symbols[next].status = "LEARNING"]

\* Lines 677-697: promote the learning symbol, pick the next one.
promote(state, learningId) ==
    LET done == [state EXCEPT
                   !.symbols[learningId].status = "LEARNED",
                   !.symbols[learningId].success_streak = 0,
                   !.symbols[learningId].stage4_success = FALSE]
        next == nextNotIntroduced(done)
    IN  IF next = Null
          THEN [done EXCEPT !.currentLearningId = Null, !.stage = 1]
          ELSE [done EXCEPT !.currentLearningId = next, !.stage = 1,
                            !.symbols[next].status = "LEARNING"]

\* recordAttempt(ok, targetId) on this.progress = state with
\* this.stageUsed = stageUsedNow and nowMs() = t.  The result holds the
\* state afterwards, the return value and whether saveProgress ran.
recordAttempt(state, stageUsedNow, ok, targetId, t) ==
    IF state = NoProgress \/ state.currentLearningId = Null
      THEN [state |-> state, ret |-> FALSE, saved |-> FALSE]
    ELSE IF ~HasEntry(state, targetId)
      THEN [state |-> state, ret |-> FALSE, saved |-> FALSE]
    ELSE
      LET learningId == state.currentLearningId
          touched == touchEntry(state.symbols[targetId], ok, t)
          isLearningTarget == targetId = learningId
      IN  IF ~isLearningTarget
            THEN [state |-> [state EXCEPT !.symbols[targetId] = touched],
                  ret |-> FALSE, saved |-> TRUE]
          ELSE
            LET symState == updateStreak(touched, ok, stageUsedNow)
                state1 == [state EXCEPT
                             !.symbols[targetId] = symState,
                             !.stage = advanceStage(@, ok)]
            IN  IF ~eligible(symState, learnedCountOf(state1))
                  THEN [state |-> state1, ret |-> FALSE, saved |-> TRUE]
                  ELSE [state |-> promote(state1, learningId),
                        ret |-> TRUE, saved |-> TRUE]

\* ------------------------------------------------------------------------
\* Round composer.
\* ------------------------------------------------------------------------

\* The draws one shuffleInPlace of n elements makes: for each position i
\* from the last down to the second, j = floor(rng() * i) + 1 in 1..i.
ShuffleDraws(n) == {d \in [2..n -> 1..n] : \A i \in 2..n : d[i] <= i}

Swap(arr, i, j) ==
    [arr EXCEPT ![i] = arr[j], ![j] = arr[i]]

RECURSIVE shuffleFrom(_, _, _)
shuffleFrom(arr, draws, i) ==
    IF i < 2 THEN arr ELSE shuffleFrom(Swap(arr, i, draws[i]), draws, i - 1)

\* shuffleInPlace(arr, rng) with the rng's draws given.
shuffleInPlace(arr, draws) == shuffleFrom(arr, draws, Len(arr))

InSeq(x, s) == \E i \in 1..Len(s) : s[i] = x

\* Lines 181-187: the probabilistic pass; flips[i] is rng() < p at the i-th
\* candidate.
RECURSIVE firstPass(_, _, _, _, _)
firstPass(shuffled, flips, needed, i, picked) ==
    IF i > Len(shuffled) \/ Len(picked) >= needed THEN picked
    ELSE firstPass(shuffled, flips, needed, i + 1,
                   IF flips[i] /\ ~InSeq(shuffled[i], picked)
                     THEN Append(picked, shuffled[i]) ELSE picked)

\* Lines 190-196: the filling pass.
RECURSIVE secondPass(_, _, _, _)
secondPass(shuffled, needed, i, picked) ==
    IF i > Len(shuffled) \/ Len(picked) >= needed THEN picked
    ELSE secondPass(shuffled, needed, i + 1,
                    IF ~InSeq(shuffled[i], picked)
                      THEN Append(picked, shuffled[i]) ELSE picked)

\* pickLearnedDistractors without its second loop.
pickFirstPassOnly(learnedIds, needed, draws, flips) ==
    IF needed <= 0 THEN << >>
    ELSE
      LET shuffled == shuffleInPlace(learnedIds, draws)
          picked == firstPass(shuffled, flips, needed, 1, << >>)
      IN  SubSeq(picked, 1, Min(needed, Len(picked)))

pickLearnedDistractors(learnedIds, needed, draws, flips) ==
    IF needed <= 0 THEN << >>
    ELSE
      LET shuffled == shuffleInPlace(learnedIds, draws)
          picked == secondPass(shuffled, needed, 1,
                       firstPass(shuffled, flips, needed, 1, << >>))
      IN  SubSeq(picked, 1, Min(needed, Len(picked)))

\* Lines 271-273 taking every id that is not LEARNING.
idleIdsOf(state) ==
    SelectSeq(Catalog, LAMBDA id : StatusOf(state, id) # "LEARNING")

\* Lines 271-273.
learnedIdsOf(state) ==
    SelectSeq(Catalog, LAMBDA id : StatusOf(state, id) = "LEARNED")

\* Lines 285-291 with minChoices 1 in review rounds too.
targetChoicesOneFloor(stage, isReview, learnedLen) ==
    LET targetStage == Max(1, Min(MAX_STAGE, IF stage = 0 THEN 1 ELSE stage))
    IN  Min(Max(1, targetStage),
            IF isReview THEN 2 + learnedLen ELSE 1 + learnedLen)

\* Lines 285-291: the number of choices of a round.
targetChoicesOf(stage, isReview, learnedLen) ==
    LET targetStage == Max(1, Min(MAX_STAGE, IF stage = 0 THEN 1 ELSE stage))
        minChoices == IF isReview THEN 2 ELSE 1
    IN  Min(Max(minChoices, targetStage),
            IF isReview THEN 2 + learnedLen ELSE 1 + learnedLen)

\* Line 294 without line 295: the target alone.
baseTargetOnly(targetId, learningId, isReview) == <<targetId>>

\* Lines 294-295: the base set, in insertion order.
baseOf(targetId, learningId, isReview) ==
    IF isReview /\ learningId # targetId THEN <<targetId, learningId>>
                                         ELSE <<targetId>>

\* Every result shuffleInPlace(arr, rng) can have, over all draws.
shuffleOutcomes(arr) ==
    {shuffleInPlace(arr, draws) : draws \in ShuffleDraws(Len(arr))}

\* Every result pickLearnedDistractors can have, over all draws.
pickOutcomes(learnedIds, needed) ==
    { pickLearnedDistractors(learnedIds, needed, draws, flips) :
        draws \in ShuffleDraws(Len(learnedIds)),
        flips \in [1..Len(learnedIds) -> BOOLEAN] }

\* The two sets above, tabulated once: for every list of distinct catalog
\* ids a round can offer, and for every pool (catalog ids in catalog order).
OptionLists ==
    UNION { {s \in [1..n -> CatalogIds] :
               \A i, j \in 1..n : i # j => s[i] # s[j]} :
            n \in 0..Min(MAX_STAGE, NumSymbols) }

Pools ==
    {SelectSeq(Catalog, LAMBDA id : id \in S) : S \in SUBSET CatalogIds}

ShuffleTable == [arr \in OptionLists |-> shuffleOutcomes(arr)]

PickTable ==
    [pool \in Pools, needed \in 0..MAX_STAGE |-> pickOutcomes(pool, needed)]

\* The draws of a generator that returns a value just below 1 every time:
\* floor(rng() * i) = i - 1, so no element moves, and rng() < p fails.
TopDraws(n) == [i \in 2..n |-> i]
NoFlips(n) == [i \in 1..n |-> FALSE]

\* The results the composer's two randomised steps are explored with: all
\* of them when allDraws, else the one that the top-of-range draws give.
\* recordAttempt reads of a round only stageUsed, which no shuffle decides.
shuffleChoices(arr, allDraws) ==
    IF allDraws THEN ShuffleTable[arr]
    ELSE {shuffleInPlace(arr, TopDraws(Len(arr)))}

pickChoices(pool, needed, allDraws) ==
    IF allDraws THEN PickTable[pool, needed]
    ELSE {pickLearnedDistractors(pool, needed, TopDraws(Len(pool)),
                                 NoFlips(Len(pool)))}

\* ------------------------------------------------------------------------
\* The persisted blobs a run may start from.
\* ------------------------------------------------------------------------

T == TRUE
F == FALSE

\* Counters of a LEARNING entry, as earlier sessions leave them.
LearningProfiles ==
    { [success_streak |-> 0, total_attempts |-> 0, last_seen_timestamp |-> 0,
       recent |-> << >>, stage4_success |-> F],
      [success_streak |-> 4, total_attempts |-> 4, last_seen_timestamp |-> 1,
       recent |-> <<T, T, T, T>>, stage4_success |-> F],
      [success_streak |-> 4, total_attempts |-> 5, last_seen_timestamp |-> 1,
       recent |-> <<F, T, T, T, T>>, stage4_success |-> T],
      [success_streak |-> 4, total_attempts |-> 6, last_seen_timestamp |-> 1,
       recent |-> <<F, F, T, T, T, T>>, stage4_success |-> F],
      [success_streak |-> 6, total_attempts |-> 8, last_seen_timestamp |-> 1,
       recent |-> <<F, F, T, T, T, T, T, T>>, stage4_success |-> F] }

\* A LEARNING entry whose recent array is longer than the window: a blob
\* no saveProgress wrote, which normalizeState lets through.
LongRecentProfile ==
    [success_streak |-> 0, total_attempts |-> 9, last_seen_timestamp |-> 1,
     recent |-> <<T, F, T, T, F, T, T, T, T>>, stage4_success |-> F]

\* A LEARNING entry whose streak is above PROMOTE_STREAK with no miss in
\* its window: no session leaves one (it would have promoted), and
\* normalizeState lets it through.
HighStreakProfile ==
    [success_streak |-> PROMOTE_STREAK + 1,
     total_attempts |-> PROMOTE_STREAK + 1, last_seen_timestamp |-> 1,
     recent |-> <<T, T, T, T, T, T>>, stage4_success |-> F]

\* Counters of a LEARNED entry: promoted after F T T T T T, reviewed twice.
LearnedProfile ==
    [success_streak |-> 0, total_attempts |-> 8, last_seen_timestamp |-> 1,
     recent |-> <<F, T, T, T, T, T, T, T>>, stage4_success |-> F]

Statuses == {"NOT_INTRODUCED", "LEARNING", "LEARNED"}

EntryOf(status, prof) ==
    LET p == IF status = "LEARNING" THEN prof
             ELSE IF status = "LEARNED" THEN LearnedProfile
             ELSE [success_streak |-> 0, total_attempts |-> 0,
                   last_seen_timestamp |-> 0, recent |-> << >>,
                   stage4_success |-> F]
    IN  [status |-> status, success_streak |-> p.success_streak,
         total_attempts |-> p.total_attempts,
         last_seen_timestamp |-> p.last_seen_timestamp,
         recent |-> p.recent, stage4_success |-> p.stage4_success]

MkBlob(statusOf, cur, stage, prof) ==
    [kind |-> "object", version |-> 1, hasSymbols |-> TRUE,
     currentLearningId |-> cur, stage |-> stage,
     symbols |-> [k \in DOMAIN statusOf |-> EntryOf(statusOf[k], prof)]]

\* Stored stage values: falsy, in range, the maximum, above the maximum.
RawStages == {0, 3, MAX_STAGE, MAX_STAGE + 2}

\* Stored currentLearningId values: null, every catalog id, a stale id.
RawCurrent == {Null} \cup CatalogIds \cup {StaleId}

\* The statuses a session leaves behind: n LEARNED ids, then the LEARNING
\* one, then NOT_INTRODUCED ones; n = NumSymbols is the exhausted catalog.
PlayedStatuses(n) ==
    [k \in CatalogIds |-> IF k <= n THEN "LEARNED"
                          ELSE IF k = n + 1 THEN "LEARNING"
                          ELSE "NOT_INTRODUCED"]

\* Blobs written by saveProgress in an earlier session.
SavedBlobs ==
    { MkBlob(PlayedStatuses(n), IF n < NumSymbols THEN n + 1 ELSE Null,
             st, prof) :
        n \in 0..NumSymbols, st \in 1..MAX_STAGE, prof \in LearningProfiles }

\* Version-1 blobs no session wrote: any statuses on the first two ids (the
\* rest NOT_INTRODUCED) with any currentLearningId, any stored stage, and a
\* recent array longer than the window.
FreeIds == {Catalog[1], Catalog[2]}

CorruptBlobs ==
    { MkBlob([k \in CatalogIds |->
                IF k \in FreeIds THEN sf[k] ELSE "NOT_INTRODUCED"],
             cur, 1,
             CHOOSE p \in LearningProfiles : p.total_attempts = 4) :
        sf \in [FreeIds -> Statuses], cur \in RawCurrent }
    \cup
    { MkBlob(PlayedStatuses(n), n + 1, st,
             CHOOSE p \in LearningProfiles : p.success_streak = 0) :
        n \in 0..(NumSymbols - 1), st \in RawStages }
    \cup
    { MkBlob(PlayedStatuses(n), n + 1, 1, LongRecentProfile) :
        n \in 0..(NumSymbols - 1) }

\* Version-1 blobs with the streak of HighStreakProfile.
HighStreakBlobs ==
    { MkBlob(PlayedStatuses(n), n + 1, MAX_STAGE, HighStreakProfile) :
        n \in 0..(NumSymbols - 1) }

\* Blobs of another catalog: one id fewer (the catalog has grown since), or
\* an entry more (it has shrunk).
DriftBlobs ==
    { MkBlob([k \in (CatalogIds \ {NumSymbols}) |-> PlayedStatuses(n)[k]],
             n + 1, st, prof) :
        n \in 0..(NumSymbols - 2), st \in {1, MAX_STAGE},
        prof \in LearningProfiles }
    \cup
    { MkBlob([k \in CatalogIds \cup {StaleId} |->
                IF k = StaleId THEN leftover ELSE PlayedStatuses(n)[k]],
             IF stale THEN StaleId ELSE n + 1, 1,
             CHOOSE p \in LearningProfiles : p.success_streak = 0) :
        n \in 0..(NumSymbols - 1), stale \in BOOLEAN,
        leftover \in {"LEARNING", "LEARNED"} }

\* More blobs written before the catalog grew by its last id: every symbol
\* of the time LEARNED, with currentLearningId null or naming the new id;
\* and one with two LEARNING entries.
GrownBlobs ==
    { MkBlob([k \in (CatalogIds \ {NumSymbols}) |-> "LEARNED"], cur, 1,
             CHOOSE p \in LearningProfiles : p.success_streak = 0) :
        cur \in {Null, NumSymbols} }
    \cup
    { MkBlob([k \in (CatalogIds \ {NumSymbols}) |->
                IF k \in FreeIds THEN "LEARNING" ELSE "NOT_INTRODUCED"],
             Null, 1,
             CHOOSE p \in LearningProfiles : p.total_attempts = 4) }

\* A blob a session wrote after one promotion, for the rejected objects to
\* carry: what is discarded with them.
PlayedBlob ==
    MkBlob(PlayedStatuses(1), Catalog[2], MAX_STAGE,
           CHOOSE p \in LearningProfiles : p.total_attempts = 4)

\* Stored values normalizeState answers null to: no object at all, an
\* object of another version or without one, version 1 without a symbols
\* object.
InvalidBlobs ==
    { [kind |-> k, version |-> 0, hasSymbols |-> FALSE,
       currentLearningId |-> Null, stage |-> 0,
       symbols |-> [x \in {} |-> NewEntry]] : k \in InvalidKinds }
    \cup
    { [PlayedBlob EXCEPT !.version = v] : v \in {0, 2} }
    \cup
    { [PlayedBlob EXCEPT !.hasSymbols = FALSE,
                         !.symbols = [x \in {} |-> NewEntry]] }

Blobs ==
    InvalidBlobs \cup SavedBlobs \cup CorruptBlobs \cup HighStreakBlobs
        \cup DriftBlobs \cup GrownBlobs

\* ------------------------------------------------------------------------
\* State.
\* ------------------------------------------------------------------------

VARIABLES
    storage,          \* localStorage[PROGRESS_KEY], as JSON.parse reads it
    storageWritable,  \* whether localStorage.setItem succeeds
    progress,         \* this.progress
    correctId,        \* this.correctId
    optionIds,        \* this.optionIds
    stageUsed,        \* this.stageUsed
    isReviewRound,    \* this.isReviewRound
    calls,            \* recordAttempt invocations so far; nowMs() follows it
    spent,            \* those of them that returned false
    lastCall,         \* the last recordAttempt call and what it returned
    phase,            \* Phaser's place in the scene's life cycle
    leftPrompt,       \* whether this.leftPrompt holds a prompt
    draggables,       \* the ids of the cards this.draggables holds
    stray,            \* ids of cards on screen that this.draggables lost
    loading,          \* pending loadAssets promises: 0, 1, or 2 for several
    tweens,           \* pending drop animations, each with its `promoted`
    lastEvent,        \* the last event the scene handled
    answered,         \* an outcome of the round in flight was recorded
    resolved          \* the round in flight has its loadAssets resolved

roundVars == <<correctId, optionIds, stageUsed, isReviewRound>>

\* What the scene shows and the callbacks it has pending.
sceneVars == <<phase, leftPrompt, draggables, stray, loading, tweens,
               lastEvent, answered, resolved>>

vars == <<storage, storageWritable, progress, correctId, optionIds,
          stageUsed, isReviewRound, calls, spent, lastCall, phase,
          leftPrompt, draggables, stray, loading, tweens, lastEvent,
          answered, resolved>>

\* The clock starts after every stored timestamp and ticks once per call.
nowMs(n) == 1 + n

NoCall == [ok |-> FALSE, targetId |-> Null, ret |-> FALSE]

NoEvent == [kind |-> "none", inside |-> FALSE]

\* Nothing is shown and nothing is pending (constructor, lines 206-214).
NothingShown ==
    /\ phase = "away"
    /\ leftPrompt = FALSE
    /\ draggables = << >>
    /\ stray = {}
    /\ loading = 0
    /\ tweens = << >>
    /\ lastEvent = NoEvent
    /\ answered = FALSE
    /\ resolved = FALSE

\* The scene after its constructor, over any stored blob.
Init ==
    /\ storage \in Blobs
    /\ storageWritable = TRUE
    /\ progress = NoProgress
    /\ correctId = Null
    /\ optionIds = << >>
    /\ stageUsed = 1
    /\ isReviewRound = FALSE
    /\ calls = 0
    /\ spent = 0
    /\ lastCall = NoCall
    /\ NothingShown

\* MatchGameScene.init (the scene is entered, or entered again).
SceneInit ==
    /\ progress' = loadProgress(Catalog, storage)
    /\ UNCHANGED <<storage, storageWritable, roundVars, calls, spent,
                   lastCall>>
    /\ UNCHANGED sceneVars

\* The round buildQuestion composes (lines 264-305).  The round-kind draw
\* (coin) and the review-target draw (k) are always arbitrary.
PickRound(allDraws) ==
       IF \/ progress = NoProgress
          \/ progress.currentLearningId = Null
          \/ ~HasEntry(progress, progress.currentLearningId)
         THEN UNCHANGED roundVars
         ELSE
           LET learningId == progress.currentLearningId
               learnedIds == learnedIdsOf(progress)
           IN  \E coin \in BOOLEAN, k \in 1..Max(1, Len(learnedIds)) :
                 LET review == Len(learnedIds) > 0 /\ coin
                     targetId == IF review THEN learnedIds[k] ELSE learningId
                     isReview == review /\ targetId # learningId
                     targetChoices ==
                        targetChoicesOf(progress.stage, isReview,
                                        Len(learnedIds))
                     base == baseOf(targetId, learningId, isReview)
                     distractorPool ==
                        SelectSeq(learnedIds, LAMBDA id : ~InSeq(id, base))
                     needed == Max(0, targetChoices - Len(base))
                 IN  /\ review \/ k = 1
                     /\ correctId' = targetId
                     /\ isReviewRound' = isReview
                     /\ stageUsed' = targetChoices
                     /\ optionIds' \in
                          UNION { shuffleChoices(base \o learnedDistractors,
                                                 allDraws) :
                                    learnedDistractors \in
                                       pickChoices(distractorPool, needed,
                                                   allDraws) }

\* buildQuestion stamping the target as seen and saving the state.
ComposeRoundStamping(allDraws) ==
    /\ progress # NoProgress
    /\ PickRound(allDraws)
    /\ progress' = IF HasEntry(progress, correctId')
                     THEN [progress EXCEPT
                             !.symbols[correctId'].last_seen_timestamp =
                                 nowMs(calls + 1)]
                     ELSE progress
    /\ storage' = saveProgress(progress', storage, storageWritable)
    /\ UNCHANGED <<storageWritable, calls, spent, lastCall>>

\* buildQuestion up to line 305: it reads this.progress and sets the round.
ComposeRound(allDraws) ==
    /\ progress # NoProgress
    /\ PickRound(allDraws)
    /\ UNCHANGED <<storage, storageWritable, progress, calls, spent,
                   lastCall>>

\* MatchGameScene.buildQuestion, which create() and the drop handler call:
\* Phaser runs init() before either.  Rounds are composed while an attempt
\* remains to be explored.
BuildQuestion(allDraws) ==
    /\ spent < MaxCalls
    /\ ComposeRound(allDraws)
    /\ UNCHANGED sceneVars

\* A call of recordAttempt(ok, targetId) and the write it makes.
CallRecordAttempt(ok, targetId) ==
    /\ progress # NoProgress
    /\ LET r == recordAttempt(progress, stageUsed, ok, targetId,
                              nowMs(calls + 1))
       IN  /\ spent' = IF r.ret THEN spent ELSE spent + 1
           /\ progress' = r.state
           /\ storage' = IF r.saved
                           THEN saveProgress(r.state, storage, storageWritable)
                           ELSE storage
           /\ lastCall' = [ok |-> ok, targetId |-> targetId, ret |-> r.ret]
    /\ calls' = calls + 1
    /\ UNCHANGED <<storageWritable, roundVars>>

\* MatchGameScene.recordAttempt(ok, targetId), called once the scene runs.
\* Calls that return false are explored up to MaxCalls, and so are calls
\* that return true.
RecordAttempt(ok, targetId) ==
    /\ IF recordAttempt(progress, stageUsed, ok, targetId,
                        nowMs(calls + 1)).ret
         THEN calls - spent < MaxCalls
         ELSE spent < MaxCalls
    /\ CallRecordAttempt(ok, targetId)
    /\ UNCHANGED sceneVars

\* Any id a caller may pass: a catalog id or one outside the catalog.
TargetIds == CatalogIds \cup {StaleId}

Next ==
    \/ SceneInit
    \/ BuildQuestion(FALSE)
    \/ \E ok \in BOOLEAN, targetId \in TargetIds : RecordAttempt(ok, targetId)

Spec == Init /\ [][Next]_vars

\* The same scene over a storage whose setItem throws (private mode, quota):
\* what was stored earlier can be read, nothing can be written.
InitUnwritable ==
    /\ storage \in InvalidBlobs \cup SavedBlobs
    /\ storageWritable = FALSE
    /\ progress = NoProgress
    /\ correctId = Null
    /\ optionIds = << >>
    /\ stageUsed = 1
    /\ isReviewRound = FALSE
    /\ calls = 0
    /\ spent = 0
    /\ lastCall = NoCall
    /\ NothingShown

UnwritableSpec == InitUnwritable /\ [][Next]_vars

\* The first round of a stay in the scene (create(), line 256), over every
\* outcome of the generator's draws.
FirstQuestion ==
    /\ correctId = Null
    /\ BuildQuestion(TRUE)

RoundNext ==
    \/ SceneInit
    \/ FirstQuestion

RoundSpec == Init /\ [][RoundNext]_vars

\* A player's first sitting: nothing usable is stored, rounds are composed
\* and every answer, right or wrong, is on the symbol in training.
MaxAttempts == 5

InitFirstSitting ==
    /\ Init
    /\ storage \in InvalidBlobs

NextQuestion ==
    /\ calls < MaxAttempts
    /\ ComposeRound(FALSE)
    /\ UNCHANGED sceneVars

Answer(ok) ==
    /\ calls < MaxAttempts
    /\ progress # NoProgress
    /\ progress.currentLearningId # Null
    /\ CallRecordAttempt(ok, progress.currentLearningId)
    /\ UNCHANGED sceneVars

FirstSittingNext ==
    \/ SceneInit
    \/ NextQuestion
    \/ \E ok \in BOOLEAN : Answer(ok)

FirstSittingSpec == InitFirstSitting /\ [][FirstSittingNext]_vars

\* ------------------------------------------------------------------------
\* The scene as the player drives it.  The specifications above call the
\* two methods directly, with nothing on screen; here they run from the
\* scene's handlers, with the prompt, the cards, the loader's promises and
\* the drop animations.
\* ------------------------------------------------------------------------

\* Outcomes recorded in one run.
MaxDrops == 3

Range(s) == {s[i] : i \in 1..Len(s)}

Event(kind, inside) == [kind |-> kind, inside |-> inside]

\* buildQuestion gets past its two early returns (lines 265 and 269).
Composes ==
    /\ progress.currentLearningId # Null
    /\ HasEntry(progress, progress.currentLearningId)

\* handleDropOnLeft reaching recordAttempt wherever the card is released.
dropOutcomeAnywhere(hasPrompt, targetId, inside, cardId) ==
    IF ~hasPrompt \/ targetId = Null THEN "ignored"
    ELSE IF cardId = targetId THEN "hit"
    ELSE "miss"

\* handleDropOnLeft without the test of this.leftPrompt.
dropOutcomeUnprompted(hasPrompt, targetId, inside, cardId) ==
    IF targetId = Null THEN "ignored"
    ELSE IF ~inside THEN "back"
    ELSE IF cardId = targetId THEN "hit"
    ELSE "miss"

\* Lines 547-565: what handleDropOnLeft does with a released card.
dropOutcome(hasPrompt, targetId, inside, cardId) ==
    IF ~hasPrompt \/ targetId = Null THEN "ignored"
    ELSE IF ~inside THEN "back"
    ELSE IF cardId = targetId THEN "hit"
    ELSE "miss"

\* buildQuestion showing the round without waiting for loadAssets.
BuildAndShow ==
    /\ ComposeRound(FALSE)
    /\ UNCHANGED stray
    /\ IF ~Composes
         THEN /\ leftPrompt' = FALSE
              /\ draggables' = << >>
              /\ UNCHANGED <<loading, answered, resolved>>
         ELSE /\ answered' = FALSE
              /\ leftPrompt' = TRUE
              /\ draggables' = optionIds'
              /\ \E cached \in BOOLEAN :
                   /\ resolved' = cached
                   /\ loading' = IF cached THEN loading
                                           ELSE Min(2, loading + 1)

\* buildQuestion as a whole: clearQuestion, the round, loadAssets.  With
\* every texture present the promise is resolved at once (lines 350-353)
\* and its continuation (lines 308-312) shows the round before any other
\* event; otherwise it waits for the loader.
BuildAndLoad ==
    /\ ComposeRound(FALSE)
    /\ UNCHANGED stray
    /\ IF ~Composes
         THEN /\ leftPrompt' = FALSE
              /\ draggables' = << >>
              /\ UNCHANGED <<loading, answered, resolved>>
         ELSE /\ answered' = FALSE
              /\ \E cached \in BOOLEAN :
                   IF cached
                     THEN /\ leftPrompt' = TRUE
                          /\ draggables' = optionIds'
                          /\ resolved' = TRUE
                          /\ UNCHANGED loading
                     ELSE /\ leftPrompt' = FALSE
                          /\ draggables' = << >>
                          /\ resolved' = FALSE
                          /\ loading' = Min(2, loading + 1)

\* Phaser starts the scene: init().
Enter ==
    /\ phase = "away"
    /\ phase' = "entered"
    /\ progress' = loadProgress(Catalog, storage)
    /\ lastEvent' = Event("other", FALSE)
    /\ UNCHANGED <<storage, storageWritable, roundVars, calls, spent,
                   lastCall>>
    /\ UNCHANGED <<leftPrompt, draggables, stray, loading, tweens, answered,
                   resolved>>

\* create(), which Phaser runs right after init().
Create ==
    /\ phase = "entered"
    /\ phase' = "running"
    /\ BuildAndLoad
    /\ lastEvent' = Event("other", FALSE)
    /\ UNCHANGED tweens

\* The loader's "complete" event: every pending promise listens to it
\* (line 357), so each of their continuations runs createLeftPrompt and
\* createRightOptions on the round in flight.  Cards that this.draggables
\* held, and the cards of all continuations but the last, stay on screen.
LoadComplete ==
    /\ phase = "running"
    /\ loading > 0
    /\ loading' = 0
    /\ leftPrompt' = TRUE
    /\ draggables' = optionIds
    /\ stray' = stray \cup Range(draggables)
                      \cup (IF loading > 1 THEN Range(optionIds) ELSE {})
    /\ resolved' = TRUE
    /\ lastEvent' = Event("other", FALSE)
    /\ UNCHANGED <<storage, storageWritable, progress, roundVars, calls,
                   spent, lastCall, phase, tweens, answered>>

\* Every recorded drop starts an animation that ends in buildQuestion.
dropAnimationsOnMiss(pending, ok, promoted) ==
    Append(pending, [promoted |-> promoted])

\* The animations that end in buildQuestion, after a recorded drop: a hit
\* adds one (lines 584-601); the animation of a miss only brings the card
\* back (lines 569-576).
dropAnimations(pending, ok, promoted) ==
    IF ok THEN Append(pending, [promoted |-> promoted]) ELSE pending

\* A card's dragend: handleDropOnLeft(card).  A card stays on screen and
\* draggable while its drop animation runs.
HandleDropOnLeft(cardId, inside) ==
    /\ phase = "running"
    /\ cardId \in Range(draggables) \cup stray
    /\ lastEvent' = Event("drop", inside)
    /\ UNCHANGED <<phase, leftPrompt, draggables, stray, loading, resolved>>
    /\ LET outcome == dropOutcome(leftPrompt, correctId, inside, cardId)
       IN  IF outcome \in {"ignored", "back"}
             THEN UNCHANGED <<storage, storageWritable, progress, roundVars,
                              calls, spent, lastCall, tweens, answered>>
             ELSE
               LET ok == outcome = "hit"
                   r == recordAttempt(progress, stageUsed, ok, correctId,
                                      nowMs(calls + 1))
               IN  /\ calls < MaxDrops
                   /\ CallRecordAttempt(ok, correctId)
                   /\ answered' = (answered \/ r.saved)
                   /\ tweens' = dropAnimations(tweens, ok, r.ret)

\* The end of the oldest drop animation (lines 595-598): buildQuestion.
TweenComplete ==
    /\ phase = "running"
    /\ tweens # << >>
    /\ tweens' = Tail(tweens)
    /\ BuildAndLoad
    /\ lastEvent' = Event("other", FALSE)
    /\ UNCHANGED phase

\* The home button (line 235): Phaser shuts the scene down, which destroys
\* its objects and drops its tweens and the loader's listeners.  No round
\* is in flight afterwards.
Home ==
    /\ phase = "running"
    /\ phase' = "away"
    /\ tweens' = << >>
    /\ loading' = 0
    /\ stray' = {}
    /\ leftPrompt' = FALSE
    /\ draggables' = << >>
    /\ answered' = FALSE
    /\ resolved' = FALSE
    /\ lastEvent' = Event("home", FALSE)
    /\ UNCHANGED <<storage, storageWritable, progress, roundVars, calls,
                   spent, lastCall>>

SceneNext ==
    \/ Enter
    \/ Create
    \/ LoadComplete
    \/ \E cardId \in CatalogIds, inside \in BOOLEAN :
          HandleDropOnLeft(cardId, inside)
    \/ TweenComplete
    \/ Home

\* The stores a run starts from: an empty one, and those an earlier
\* session left one correct answer before a promotion.
SceneBlobs ==
    { b \in InvalidBlobs : b.kind = "absent" }
    \cup
    { MkBlob(PlayedStatuses(n), Catalog[n + 1], MAX_STAGE,
             CHOOSE p \in LearningProfiles : p.total_attempts = 4) :
        n \in {0, 1, NumSymbols - 1} }

InitScene ==
    /\ Init
    /\ storage \in SceneBlobs

SceneSpec == InitScene /\ [][SceneNext]_vars

\* ------------------------------------------------------------------------
\* One stay in the scene played by the protocol: a round is composed, cards
\* are dropped on its prompt one at a time, and the animation of the correct
\* drop ends before the next card is touched.
\* ------------------------------------------------------------------------

\* Attempts recorded in one stay.
MaxPractice == 10

\* The stores a stay starts from: an empty one, and the one an earlier
\* session left on promoting the last symbol but one.
PracticeBlobs ==
    { b \in InvalidBlobs : b.kind = "absent" }
    \cup
    { MkBlob(PlayedStatuses(NumSymbols - 1), Catalog[NumSymbols], 1,
             CHOOSE p \in LearningProfiles : p.total_attempts = 0) }

InitPractice ==
    /\ Init
    /\ storage \in PracticeBlobs

\* MatchGameScene.init on entering the scene.
PracticeEnter ==
    /\ progress = NoProgress
    /\ SceneInit

\* buildQuestion, the review draw of line 280 giving the first LEARNED id
\* or none.
PracticeRound ==
    /\ ComposeRound(FALSE)
    /\ isReviewRound' => correctId' = learnedIdsOf(progress)[1]

\* create(): the first round of the stay.
PracticeCreate ==
    /\ correctId = Null
    /\ tweens = << >>
    /\ PracticeRound
    /\ UNCHANGED sceneVars

\* handleDropOnLeft with a card over the prompt of the open round, no drop
\* animation running.  A review round is answered correctly.
DropOnPrompt(ok) ==
    /\ correctId # Null
    /\ isReviewRound => ok
    /\ tweens = << >>
    /\ progress # NoProgress
    /\ progress.currentLearningId # Null
    /\ CallRecordAttempt(ok, correctId)
    /\ tweens' = dropAnimations(tweens, ok,
                    recordAttempt(progress, stageUsed, ok, correctId,
                                  nowMs(calls + 1)).ret)
    /\ UNCHANGED <<phase, leftPrompt, draggables, stray, loading, lastEvent,
                   answered, resolved>>

PracticeDrop(ok) ==
    /\ calls < MaxPractice
    /\ DropOnPrompt(ok)

\* The end of the drop animation (lines 595-598): buildQuestion.
PracticeTweenComplete ==
    /\ tweens # << >>
    /\ tweens' = Tail(tweens)
    /\ PracticeRound
    /\ UNCHANGED <<phase, leftPrompt, draggables, stray, loading, lastEvent,
                   answered, resolved>>

PracticeNext ==
    \/ PracticeEnter
    \/ PracticeCreate
    \/ \E ok \in BOOLEAN : PracticeDrop(ok)
    \/ PracticeTweenComplete

PracticeSpec == InitPractice /\ [][PracticeNext]_vars

\* ------------------------------------------------------------------------
\* The whole catalog played in one stay from an empty store.  Wrong drops
\* and review rounds happen among the first MaxDetours recorded attempts;
\* from then on every round is a learning round answered correctly.
\* ------------------------------------------------------------------------

MaxDetours == 7

\* More attempts than the catalog can take: MaxDetours, then a full window
\* for every symbol.
MaxRun == MaxDetours + WINDOW_ATTEMPTS * NumSymbols

InitCatalog ==
    /\ Init
    /\ storage \in { b \in InvalidBlobs : b.kind = "absent" }

CatalogDrop(ok) ==
    /\ calls < MaxRun
    /\ ok \/ calls < MaxDetours
    /\ DropOnPrompt(ok)

CatalogTweenComplete ==
    /\ PracticeTweenComplete
    /\ isReviewRound' => calls < MaxDetours

CatalogNext ==
    \/ PracticeEnter
    \/ PracticeCreate
    \/ \E ok \in BOOLEAN : CatalogDrop(ok)
    \/ CatalogTweenComplete

\* The scene is entered and created, animations end, the player ends every
\* round with the correct card, and the review draw of line 278 does not
\* come out below REVIEW_TARGET_P for ever.
\* The step that ends a drop animation, and the one among them whose draw
\* of line 278 chooses a learning round.
AnimationEnds ==
    /\ tweens # << >>
    /\ tweens' = Tail(tweens)

LearningRoundChosen ==
    /\ AnimationEnds
    /\ isReviewRound' = FALSE

CatalogFairness ==
    /\ WF_vars(PracticeEnter)
    /\ WF_vars(PracticeCreate)
    /\ WF_vars(CatalogDrop(TRUE))
    /\ WF_tweens(AnimationEnds)
    /\ SF_tweens(LearningRoundChosen)

CatalogSpec == InitCatalog /\ [][CatalogNext]_vars /\ CatalogFairness

\* ------------------------------------------------------------------------
\* Properties.  They are stated on the variables alone: the state before a
\* recordAttempt step, the arguments and return value it leaves in lastCall,
\* and the state after it.
\* ------------------------------------------------------------------------

\* A step is a recordAttempt invocation iff it advances calls; it is a
\* loadProgress that changed something iff it changes progress and not calls.
IsCall == calls' = calls + 1
IsLoad == calls' = calls /\ progress' # progress

\* A stored value that line 119 takes for a state.
ValidBlob(raw) == raw.kind = "object" /\ raw.version = 1 /\ raw.hasSymbols

OnLearningTarget ==
    /\ IsCall
    /\ progress.currentLearningId # Null
    /\ lastCall'.targetId = progress.currentLearningId

LearningIn(state) ==
    {id \in CatalogIds : state.symbols[id].status = "LEARNING"}

LearnedIn(state) ==
    {id \in CatalogIds : state.symbols[id].status = "LEARNED"}

Forward(a, b) ==
    \/ a = b
    \/ a = "NOT_INTRODUCED" /\ b = "LEARNING"
    \/ a = "LEARNING" /\ b = "LEARNED"

\* The streak, the window and the stage-4 flag an attempt leaves, from the
\* entry e before it.
StreakAfter(e, ok) ==
    IF ok THEN e.success_streak + 1
    ELSE IF e.success_streak > 0 THEN e.success_streak - 1 ELSE 0

WindowAfter(e, ok) ==
    LET all == Append(e.recent, ok)
        drop == IF Len(all) > WINDOW_ATTEMPTS
                  THEN Len(all) - WINDOW_ATTEMPTS ELSE 0
    IN  [i \in 1..(Len(all) - drop) |-> all[i + drop]]

Falses(w) == Cardinality({i \in DOMAIN w : ~w[i]})

Stage4After(e, ok) == e.stage4_success \/ (ok /\ stageUsed >= 4)

WindowAndGate(e, ok) ==
    /\ Falses(WindowAfter(e, ok)) <= MAX_ERRORS_IN_WINDOW
    /\ (Cardinality(LearnedIn(progress)) < 3 \/ Stage4After(e, ok))

FirstNotIntroduced(state, id) ==
    \E i \in 1..Len(Catalog) :
        /\ Catalog[i] = id
        /\ state.symbols[id].status = "NOT_INTRODUCED"
        /\ \A j \in 1..(i - 1) :
              state.symbols[Catalog[j]].status # "NOT_INTRODUCED"

\* C1: once progress is loaded, whatever was stored and whatever rounds and
\* attempts followed, at most one catalog symbol is LEARNING and that symbol
\* is currentLearningId.
SingleLearning ==
    progress # NoProgress =>
        /\ Cardinality(LearningIn(progress)) <= 1
        /\ \A id \in LearningIn(progress) : id = progress.currentLearningId

\* A promotion after a repaired load: the second symbol was the one kept
\* LEARNING, and its promotion went back to the first for the next one.
SingleLearningWitness ==
    /\ lastCall.ret
    /\ progress.currentLearningId = Catalog[1]
    /\ progress.symbols[Catalog[2]].status = "LEARNED"
    /\ LearningIn(progress) = {Catalog[1]}

\* C2: a recordAttempt call leaves every status where it was or moves it one
\* step forward, NOT_INTRODUCED to LEARNING or LEARNING to LEARNED; never
\* backward, never from NOT_INTRODUCED to LEARNED.
StatusForward ==
    [][IsCall =>
        /\ DOMAIN progress'.symbols = DOMAIN progress.symbols
        /\ \A id \in DOMAIN progress.symbols :
              Forward(progress.symbols[id].status,
                      progress'.symbols[id].status)]_vars

\* A promotion next to a symbol learned earlier: one status went to LEARNED,
\* one to LEARNING, the earlier one stayed.
StatusForwardWitness ==
    /\ lastCall.ret
    /\ progress.currentLearningId # Null
    /\ \E id \in LearnedIn(progress) : id # lastCall.targetId

\* C3 (as the specification states it): loading a valid blob leaves every
\* symbol the blob has LEARNED at LEARNED.
LoadKeepsLearned ==
    [][(IsLoad /\ ValidBlob(storage)) =>
        \A id \in CatalogIds \cap DOMAIN storage.symbols :
            storage.symbols[id].status = "LEARNED"
                => progress'.symbols[id].status = "LEARNED"]_vars

\* C4 (as the specification states it): every recent array holds at most
\* WINDOW_ATTEMPTS outcomes and the stage is in 1..MAX_STAGE.
WindowAndStageBounded ==
    progress # NoProgress =>
        /\ progress.stage \in 1..MAX_STAGE
        /\ \A id \in DOMAIN progress.symbols :
              Len(progress.symbols[id].recent) <= WINDOW_ATTEMPTS

\* C5: an attempt on the learning target returns true iff, after its own
\* updates, the streak is at least PROMOTE_STREAK, the window holds at most
\* MAX_ERRORS_IN_WINDOW misses, and fewer than 3 catalog symbols are LEARNED
\* or the stage-4 flag is set.
PromotionRule ==
    [][OnLearningTarget =>
        LET e == progress.symbols[progress.currentLearningId]
            ok == lastCall'.ok
        IN  lastCall'.ret <=>
              (StreakAfter(e, ok) >= PROMOTE_STREAK /\ WindowAndGate(e, ok))
      ]_vars

\* Three symbols LEARNED, the target just answered to a streak of
\* PROMOTE_STREAK with no miss in its window, no stage-4 success: refused.
PromotionRuleWitness ==
    /\ lastCall.ok /\ ~lastCall.ret
    /\ lastCall.targetId = progress.currentLearningId
    /\ Cardinality(LearnedIn(progress)) = 3
    /\ LET e == progress.symbols[progress.currentLearningId]
       IN  /\ e.success_streak = PROMOTE_STREAK
           /\ e.total_attempts = PROMOTE_STREAK
           /\ \A i \in DOMAIN e.recent : e.recent[i]
           /\ ~e.stage4_success

\* C6 (as the specification states it): promotion iff the attempt is the
\* correct one made at a streak of exactly PROMOTE_STREAK - 1, with the
\* window and the stage-4 gate satisfied.
PromotionFromFour ==
    [][OnLearningTarget =>
        LET e == progress.symbols[progress.currentLearningId]
            ok == lastCall'.ok
        IN  lastCall'.ret <=>
              /\ ok /\ e.success_streak = PROMOTE_STREAK - 1
              /\ WindowAndGate(e, ok)
      ]_vars

\* C6 (amended): promotion iff the attempt is a correct one made at a streak
\* of PROMOTE_STREAK - 1 or more, or a miss made at PROMOTE_STREAK + 1 or
\* more, with the window and the stage-4 gate satisfied.
PromotionFromFourUp ==
    [][OnLearningTarget =>
        LET e == progress.symbols[progress.currentLearningId]
            ok == lastCall'.ok
        IN  lastCall'.ret <=>
              /\ \/ ok /\ e.success_streak >= PROMOTE_STREAK - 1
                 \/ ~ok /\ e.success_streak >= PROMOTE_STREAK + 1
              /\ WindowAndGate(e, ok)
      ]_vars

\* A promotion on the ninth answer to a symbol missed on the first two: the
\* streak stood at 6 when the second miss left the window.
PromotionFromFourUpWitness ==
    /\ lastCall.ok /\ lastCall.ret
    /\ LET e == progress.symbols[lastCall.targetId]
       IN  /\ e.total_attempts = WINDOW_ATTEMPTS + 1
           /\ Len(e.recent) = WINDOW_ATTEMPTS
           /\ Falses(e.recent) = 1 /\ ~e.recent[1]

\* C7: a promotion leaves the promoted symbol LEARNED with streak 0 and the
\* stage-4 flag clear, makes the first NOT_INTRODUCED catalog id LEARNING
\* and currentLearningId (null if there is none), sets the stage to 1, and
\* changes no other status.
PromotionEffect ==
    [][(IsCall /\ lastCall'.ret) =>
        LET old == progress.currentLearningId
        IN  /\ old = lastCall'.targetId
            /\ progress'.symbols[old].status = "LEARNED"
            /\ progress'.symbols[old].success_streak = 0
            /\ ~progress'.symbols[old].stage4_success
            /\ progress'.stage = 1
            /\ \A id \in CatalogIds :
                  FirstNotIntroduced(progress, id) =>
                      /\ progress'.symbols[id].status = "LEARNING"
                      /\ progress'.currentLearningId = id
            /\ (\A id \in CatalogIds :
                    progress.symbols[id].status # "NOT_INTRODUCED")
                  => progress'.currentLearningId = Null
            /\ \A id \in DOMAIN progress.symbols :
                  (id # old /\ ~FirstNotIntroduced(progress, id)) =>
                      progress'.symbols[id].status
                          = progress.symbols[id].status]_vars

\* A promotion that found a next symbol.
PromotionEffectWitness ==
    /\ lastCall.ret
    /\ progress.stage = 1
    /\ progress.currentLearningId \in LearningIn(progress)
    /\ progress.symbols[lastCall.targetId].status = "LEARNED"
    /\ progress.symbols[lastCall.targetId].success_streak = 0

\* C8 (as the specification states it): every call whose target has an
\* entry adds 1 to its total_attempts and appends the outcome to its recent
\* array, kept to the last WINDOW_ATTEMPTS.
AttemptAlwaysLogged ==
    [][(IsCall /\ lastCall'.targetId \in DOMAIN progress.symbols) =>
        LET a == progress.symbols[lastCall'.targetId]
            b == progress'.symbols[lastCall'.targetId]
        IN  /\ b.total_attempts = a.total_attempts + 1
            /\ b.recent = WindowAfter(a, lastCall'.ok)]_vars

\* C9: a call on a target that has an entry and is not the learning symbol
\* returns false and leaves the stage, currentLearningId, every status,
\* streak and stage-4 flag, and every other symbol's entry as they were.
OffTargetFrame ==
    [][(/\ IsCall
        /\ lastCall'.targetId \in DOMAIN progress.symbols
        /\ lastCall'.targetId # progress.currentLearningId) =>
        /\ ~lastCall'.ret
        /\ progress'.stage = progress.stage
        /\ progress'.currentLearningId = progress.currentLearningId
        /\ DOMAIN progress'.symbols = DOMAIN progress.symbols
        /\ \A id \in DOMAIN progress.symbols :
              LET a == progress.symbols[id]
                  b == progress'.symbols[id]
              IN  /\ b.status = a.status
                  /\ b.success_streak = a.success_streak
                  /\ b.stage4_success = a.stage4_success
                  /\ id # lastCall'.targetId => b = a]_vars

\* A correct answer on a LEARNED symbol while another one is learning, the
\* answer logged in the symbol's entry.
OffTargetFrameWitness ==
    /\ lastCall.ok /\ ~lastCall.ret
    /\ progress.currentLearningId # Null
    /\ lastCall.targetId \in LearnedIn(progress)
    /\ progress.symbols[lastCall.targetId].last_seen_timestamp = nowMs(calls)

\* C10: a correct attempt on the learning target adds exactly 1 to its
\* streak and moves the stage to min(MAX_STAGE, stage + 1); where it also
\* promotes, the streak it reached was at least PROMOTE_STREAK.
CorrectOnTarget ==
    [][(OnLearningTarget /\ lastCall'.ok) =>
        LET id == progress.currentLearningId
            up == progress.symbols[id].success_streak + 1
        IN  IF lastCall'.ret
              THEN up >= PROMOTE_STREAK
              ELSE /\ progress'.symbols[id].success_streak = up
                   /\ progress'.stage =
                        IF progress.stage + 1 > MAX_STAGE
                          THEN MAX_STAGE ELSE progress.stage + 1]_vars

\* A first correct answer on the learning target at the top stage.
CorrectOnTargetWitness ==
    /\ lastCall.ok /\ ~lastCall.ret
    /\ lastCall.targetId = progress.currentLearningId
    /\ progress.stage = MAX_STAGE
    /\ progress.symbols[lastCall.targetId].success_streak = 1


SameStatuses ==
    /\ DOMAIN progress'.symbols = DOMAIN progress.symbols
    /\ \A id \in DOMAIN progress.symbols :
          progress'.symbols[id].status = progress.symbols[id].status

StreakDown(n) == IF n > 0 THEN n - 1 ELSE 0

HitOnTopStageRound ==
    /\ OnLearningTarget /\ lastCall'.ok
    /\ correctId = progress.currentLearningId /\ ~isReviewRound
    /\ progress.stage = MAX_STAGE
    /\ LET most == 1 + Cardinality(LearnedIn(progress))
       IN  stageUsed = IF most < MAX_STAGE THEN most ELSE MAX_STAGE

\* C12 (as the specification states it): a correct answer to a learning
\* round composed at stage MAX_STAGE leaves the learning symbol's stage-4
\* flag set (unless the call promotes), however many symbols are LEARNED.
TopStageSetsFlag ==
    [][HitOnTopStageRound =>
        \/ lastCall'.ret
        \/ progress'.symbols[progress.currentLearningId].stage4_success
      ]_vars

\* C12 (amended): it does so where at least 3 symbols are LEARNED, that is
\* where the round had MAX_STAGE choices; and a flag that was set is clear
\* after a step only where the step promoted that symbol.
TopStageSetsFlagWithThree ==
    [][/\ (HitOnTopStageRound /\ Cardinality(LearnedIn(progress)) >= 3) =>
          \/ lastCall'.ret
          \/ progress'.symbols[progress.currentLearningId].stage4_success
       /\ \A id \in DOMAIN progress.symbols :
            (/\ progress.symbols[id].stage4_success
             /\ id \in DOMAIN progress'.symbols
             /\ ~progress'.symbols[id].stage4_success)
               => (IsCall /\ lastCall'.ret /\ lastCall'.targetId = id)
      ]_vars

\* The first correct answer on the fourth symbol, in a round of MAX_STAGE
\* choices: the flag is set and the streak is 1.
TopStageSetsFlagWitness ==
    /\ lastCall.ok /\ ~lastCall.ret
    /\ lastCall.targetId = progress.currentLearningId
    /\ correctId = lastCall.targetId /\ ~isReviewRound
    /\ stageUsed = MAX_STAGE /\ progress.stage = MAX_STAGE
    /\ Cardinality(LearnedIn(progress)) >= 3
    /\ progress.symbols[lastCall.targetId].stage4_success
    /\ progress.symbols[lastCall.targetId].success_streak = 1


\* C13 (as the specification states it): a call with an id outside the
\* catalog returns false and leaves the progress state and the storage as
\* they were, also where the id has an entry left from another catalog.
OutsideCatalogNoOp ==
    [][(IsCall /\ lastCall'.targetId \notin CatalogIds) =>
        /\ ~lastCall'.ret
        /\ progress' = progress
        /\ storage' = storage]_vars

IsFresh(state) ==
    /\ state.currentLearningId = Catalog[1]
    /\ state.stage = 1
    /\ DOMAIN state.symbols = CatalogIds
    /\ \A id \in CatalogIds :
          LET e == state.symbols[id]
          IN  /\ e.status = IF id = Catalog[1] THEN "LEARNING"
                                               ELSE "NOT_INTRODUCED"
              /\ e.success_streak = 0 /\ e.total_attempts = 0
              /\ e.last_seen_timestamp = 0
              /\ e.recent = << >> /\ ~e.stage4_success

\* C14: loadProgress over a stored value that is absent, unreadable, not
\* JSON, not an object, of a version other than 1 or without a symbols
\* object returns the fresh state: the first catalog id LEARNING and
\* current, every other id NOT_INTRODUCED, all counters zero, stage 1.
InvalidLoadsFresh ==
    [][(IsLoad /\ ~ValidBlob(storage)) => IsFresh(progress')]_vars

\* The fresh state loaded over a version-2 object that holds a LEARNED
\* symbol and a streak.
InvalidLoadsFreshWitness ==
    /\ progress # NoProgress
    /\ IsFresh(progress)
    /\ storage.kind = "object" /\ storage.version = 2
    /\ \E id \in DOMAIN storage.symbols :
          storage.symbols[id].status = "LEARNED"


\* The step loads a valid blob that lacks an entry for some catalog id.
IsGrownLoad ==
    /\ IsLoad /\ ValidBlob(storage)
    /\ CatalogIds \ DOMAIN storage.symbols # {}

Zeroed(e) ==
    /\ e.success_streak = 0 /\ e.total_attempts = 0
    /\ e.last_seen_timestamp = 0 /\ e.recent = << >> /\ ~e.stage4_success

\* C15 (as the specification states it): loading a valid blob into a grown
\* catalog gives every catalog id an entry, the new ones NOT_INTRODUCED
\* with zeroed counters, and returns every stored entry as it was.
GrownLoadKeepsEntries ==
    [][IsGrownLoad =>
        /\ CatalogIds \subseteq DOMAIN progress'.symbols
        /\ \A id \in CatalogIds \ DOMAIN storage.symbols :
              /\ progress'.symbols[id].status = "NOT_INTRODUCED"
              /\ Zeroed(progress'.symbols[id])
        /\ \A id \in DOMAIN storage.symbols :
              progress'.symbols[id] = storage.symbols[id]]_vars

\* The status lines 149-155 leave on id, given the stored one.
RepairedStatus(id, stored) ==
    IF id = progress'.currentLearningId THEN "LEARNING"
    ELSE IF id \in CatalogIds /\ stored = "LEARNING" THEN "LEARNED"
    ELSE stored

\* C15 (amended): every catalog id has an entry; the new ones have zeroed
\* counters and every stored entry keeps its fields, but for the status:
\* the id the repair keeps is LEARNING, any other catalog id stored as
\* LEARNING is LEARNED, and the rest have the status they had
\* (NOT_INTRODUCED for a new id).
GrownLoadKeepsEntriesButStatus ==
    [][IsGrownLoad =>
        /\ CatalogIds \subseteq DOMAIN progress'.symbols
        /\ \A id \in CatalogIds \ DOMAIN storage.symbols :
              /\ progress'.symbols[id].status
                    = RepairedStatus(id, "NOT_INTRODUCED")
              /\ Zeroed(progress'.symbols[id])
        /\ \A id \in DOMAIN storage.symbols :
              progress'.symbols[id] =
                 [storage.symbols[id] EXCEPT
                    !.status = RepairedStatus(id, @)]]_vars

\* A blob with a LEARNED and a LEARNING symbol loaded into the grown
\* catalog: both entries as stored, the new id NOT_INTRODUCED.
GrownLoadWitness ==
    /\ progress # NoProgress /\ calls = 0 /\ ValidBlob(storage)
    /\ CatalogIds \ DOMAIN storage.symbols # {}
    /\ \A id \in CatalogIds \ DOMAIN storage.symbols :
          progress.symbols[id].status = "NOT_INTRODUCED"
    /\ \A id \in DOMAIN storage.symbols :
          progress.symbols[id] = storage.symbols[id]
    /\ \E id \in DOMAIN storage.symbols :
          storage.symbols[id].status = "LEARNED"
    /\ \E id \in DOMAIN storage.symbols :
          /\ storage.symbols[id].status = "LEARNING"
          /\ storage.symbols[id].total_attempts > 0


\* The stored status of a catalog id, NOT_INTRODUCED where the blob has no
\* entry for it.
StoredStatus(id) ==
    IF id \in DOMAIN storage.symbols THEN storage.symbols[id].status
                                     ELSE "NOT_INTRODUCED"

FirstStoredLearning(id) ==
    \E i \in 1..Len(Catalog) :
        /\ Catalog[i] = id
        /\ StoredStatus(id) = "LEARNING"
        /\ \A j \in 1..(i - 1) : StoredStatus(Catalog[j]) # "LEARNING"

\* C16 (as the specification states it): after loading a valid blob,
\* currentLearningId is the stored one if it is in the catalog and stored
\* as LEARNING; else the first catalog id stored as LEARNING; else the
\* first catalog id.
KeeperRule ==
    [][(IsLoad /\ ValidBlob(storage)) =>
        LET c == storage.currentLearningId
            kept == progress'.currentLearningId
        IN  IF c \in CatalogIds /\ StoredStatus(c) = "LEARNING"
              THEN kept = c
            ELSE IF \E id \in CatalogIds : StoredStatus(id) = "LEARNING"
              THEN FirstStoredLearning(kept)
            ELSE kept = Catalog[1]]_vars


\* C17 (as the specification states it): where writes fail, the state in
\* memory stays the one the engine works from: once loaded, it is changed
\* by recordAttempt only, also when the scene is entered again.
MemoryAuthoritative ==
    [][(~storageWritable /\ progress # NoProgress /\ ~IsCall)
          => progress' = progress]_vars

StoredIs(state) ==
    /\ ValidBlob(storage')
    /\ storage'.currentLearningId = state.currentLearningId
    /\ storage'.stage = state.stage
    /\ storage'.symbols = state.symbols

Occurrences(x, s) == Cardinality({i \in 1..Len(s) : s[i] = x})

\* C19: in every composed round the options hold the target exactly once
\* and no id twice, and every other option is a LEARNED symbol or, in a
\* review round, currentLearningId.
OptionsWellFormed ==
    correctId # Null =>
        /\ Occurrences(correctId, optionIds) = 1
        /\ \A i \in 1..Len(optionIds) :
              /\ Occurrences(optionIds[i], optionIds) = 1
              /\ optionIds[i] # correctId =>
                    \/ optionIds[i] \in LearnedIn(progress)
                    \/ (isReviewRound
                        /\ optionIds[i] = progress.currentLearningId)

\* A review round of MAX_STAGE options that the shuffle has stirred: the
\* target is not first and the learning symbol is not second.
OptionsWellFormedWitness ==
    /\ correctId # Null /\ isReviewRound
    /\ Len(optionIds) = MAX_STAGE
    /\ optionIds[1] # correctId
    /\ optionIds[2] # progress.currentLearningId
    /\ optionIds[MAX_STAGE] \in LearnedIn(progress)

\* The scheduler's value for the round composed, from the progress state.
ChoiceCount ==
    LET most == Cardinality(LearnedIn(progress))
                  + (IF isReviewRound THEN 2 ELSE 1)
        least == IF isReviewRound THEN 2 ELSE 1
        capped == IF progress.stage < most THEN progress.stage ELSE most
    IN  IF capped > least THEN capped ELSE least

\* C20: a composed round has as many options as the scheduler says where
\* the LEARNED symbols outside the base set can fill it, and the base set
\* plus all of them otherwise.
OptionCount ==
    correctId # Null =>
        LET baseIds == IF isReviewRound
                         THEN {correctId, progress.currentLearningId}
                         ELSE {correctId}
            base == Cardinality(baseIds)
            pool == Cardinality(LearnedIn(progress) \ baseIds)
        IN  Len(optionIds) = IF pool >= ChoiceCount - base
                               THEN ChoiceCount ELSE base + pool

\* A review round the pool could not fill: the scheduler says 3, there are
\* the target and the learning symbol.
OptionCountWitness ==
    /\ correctId # Null /\ isReviewRound
    /\ stageUsed = 3
    /\ Len(optionIds) = 2


\* C21: the choice count of a composed round is, for the stage in
\* 1..MAX_STAGE and the number of LEARNED symbols the round was composed
\* from, max(1, min(stage, 1 + learnedCount)) in a learning round and
\* max(2, min(stage, 2 + learnedCount)) in a review round.
ChoiceCountFormula ==
    correctId # Null =>
        /\ progress.stage \in 1..MAX_STAGE
        /\ stageUsed = ChoiceCount

\* A review round at stage 1, where the floor of 2 decides.
ChoiceCountFormulaWitness ==
    /\ correctId # Null /\ isReviewRound
    /\ progress.stage = 1
    /\ stageUsed = 2


\* C22: a composed round is a review round only if some symbol is LEARNED,
\* and then its target is a LEARNED symbol other than currentLearningId; in
\* every other round the target is currentLearningId; with no LEARNED
\* symbol every round is a learning round.
ReviewRule ==
    correctId # Null =>
        /\ isReviewRound =>
              /\ LearnedIn(progress) # {}
              /\ correctId \in LearnedIn(progress)
              /\ correctId # progress.currentLearningId
        /\ ~isReviewRound => correctId = progress.currentLearningId
        /\ LearnedIn(progress) = {} => ~isReviewRound

\* A review round whose target is the last of several LEARNED symbols.
ReviewRuleWitness ==
    /\ correctId # Null /\ isReviewRound
    /\ Cardinality(LearnedIn(progress)) >= 2
    /\ \A id \in LearnedIn(progress) : id <= correctId


\* C23: the options of every review round hold currentLearningId as well as
\* the review target, so a review round has at least 2 options.
ReviewKeepsLearning ==
    (correctId # Null /\ isReviewRound) =>
        /\ InSeq(progress.currentLearningId, optionIds)
        /\ InSeq(correctId, optionIds)
        /\ Len(optionIds) >= 2

\* A review round at stage 1 with a single LEARNED symbol: the two base ids
\* are all there is, and the learning symbol comes first.
ReviewKeepsLearningWitness ==
    /\ correctId # Null /\ isReviewRound
    /\ progress.stage = 1
    /\ optionIds = <<progress.currentLearningId, correctId>>


\* C25: from a fresh state, i correct attempts in a row on the first
\* catalog id, and nothing else, leave stage min(4, 1 + i) and no promotion
\* for i up to 4; the 5th promotes: the first id is LEARNED, the second is
\* LEARNING and currentLearningId, and stage is 1.
FiveHitsPromote ==
    progress # NoProgress =>
        LET first == Catalog[1]
            second == Catalog[2]
            e == progress.symbols[first]
        IN  (/\ calls <= 5
             /\ e.total_attempts = calls
             /\ e.recent = [j \in 1..calls |-> TRUE])
            => IF calls <= 4
                 THEN /\ progress.stage = Min(4, 1 + calls)
                      /\ progress.currentLearningId = first
                      /\ e.status = "LEARNING"
                      /\ progress.symbols[second].status = "NOT_INTRODUCED"
                 ELSE /\ e.status = "LEARNED"
                      /\ progress.symbols[second].status = "LEARNING"
                      /\ progress.currentLearningId = second
                      /\ progress.stage = 1

\* The state right after the 5th correct attempt in a row.
FiveHitsPromoteWitness ==
    /\ calls = 5 /\ lastCall.ret
    /\ progress.symbols[Catalog[1]].total_attempts = 5
    /\ progress.symbols[Catalog[1]].recent = <<TRUE, TRUE, TRUE, TRUE, TRUE>>
    /\ progress.currentLearningId = Catalog[2]


\* C28: once a progress state is in use, currentLearningId is null exactly
\* when every catalog symbol is LEARNED.
ExhaustedIffAllLearned ==
    progress # NoProgress =>
        (progress.currentLearningId = Null
            <=> \A id \in CatalogIds : StatusOf(progress, id) = "LEARNED")

\* The promotion of the last symbol has just emptied the catalog.
ExhaustedWitness ==
    /\ progress # NoProgress
    /\ lastCall.ret /\ lastCall.targetId = Catalog[NumSymbols]
    /\ progress.currentLearningId = Null
    /\ LearnedIn(progress) = CatalogIds


\* C29: composing a round leaves the whole progress state as it is (stage,
\* currentLearningId and every symbol entry) and writes nothing to storage.
ComposeReadsOnly ==
    [][roundVars' # roundVars => progress' = progress /\ storage' = storage]_vars

\* A learning round of MAX_STAGE options stands, and the progress state is
\* still the one loaded from the stored blob.
ComposeReadsOnlyWitness ==
    /\ correctId # Null /\ ~isReviewRound
    /\ Len(optionIds) = MAX_STAGE
    /\ ValidBlob(storage)
    /\ progress = loadProgress(Catalog, storage)


\* A round was composed by this step.
RoundComposed ==
    /\ phase' = "running"
    /\ Composes
    /\ \/ phase = "entered"
       \/ phase = "running" /\ Len(tweens') < Len(tweens)

\* C26: one round is in flight at a time: after the first round of a stay
\* in the scene, a round is composed only once an outcome of the round
\* before it has been recorded.
OneRoundInFlight ==
    [][(RoundComposed /\ phase = "running") => answered]_vars


\* C27: a round abandoned without an answer changes nothing: a card
\* released outside the prompt, and leaving the scene, leave the progress
\* state and the stored blob as they are; recordAttempt runs only when a
\* card is dropped on the prompt.
AbandonChangesNothing ==
    [][/\ (lastEvent' = Event("drop", FALSE) \/ lastEvent'.kind = "home")
          => (progress' = progress /\ storage' = storage /\ calls' = calls)
       /\ calls' # calls
          => (lastEvent' = Event("drop", TRUE) /\ leftPrompt)]_vars

\* A round is shown and unanswered, and a card has just been released
\* outside the prompt.
AbandonChangesNothingWitness ==
    /\ phase = "running" /\ leftPrompt /\ correctId # Null
    /\ lastEvent = Event("drop", FALSE)
    /\ ~answered
    /\ storage.kind = "absent"


\* C30: from the composition of a round until its loadAssets promise is
\* resolved there is no prompt and there are no option cards, and a card
\* released in that interval changes nothing and records no attempt.
NothingBeforeLoaded ==
    [][/\ (phase' = "running" /\ ~resolved')
          => (~leftPrompt' /\ draggables' = << >>)
       /\ (phase = "running" /\ ~resolved /\ lastEvent'.kind = "drop")
          => UNCHANGED <<storage, progress, roundVars, calls, lastCall,
                         tweens, leftPrompt, draggables>>]_vars

\* A round is loading, with cards of an earlier round still on screen, and
\* one of them has just been released on the place of the prompt.
NothingBeforeLoadedWitness ==
    /\ phase = "running" /\ ~resolved /\ loading > 0
    /\ Composes
    /\ stray # {}
    /\ lastEvent = Event("drop", TRUE)


\* C31: saving and loading again gives the state back: a load that finds
\* in storage the blob saveProgress writes for the state in memory leaves
\* that state as it is.
SaveThenLoad ==
    [][(/\ progress # NoProgress
        /\ calls' = calls
        /\ storage = BlobOfState(progress))
       => progress' = progress]_vars



\* C32: once a correct attempt has been recorded for the round on screen,
\* no further attempt is recorded before the next round is composed: a
\* drop made while the drop animation runs does not reach recordAttempt.
OneHitPerRound ==
    [][(/\ phase = "running"
        /\ answered
        /\ lastCall.ok)
       => calls' = calls]_vars


\* Position of a status in the order the catalog is worked through.
StatusRank(status) ==
    CASE status = "LEARNED" -> 0
      [] status = "LEARNING" -> 1
      [] OTHER -> 2

\* C35: in every state the scene reaches from a fresh store, the statuses in
\* catalog order are a run of LEARNED, then at most one LEARNING, then a run
\* of NOT_INTRODUCED.
StatusesInCatalogOrder ==
    progress # NoProgress =>
        /\ Cardinality(LearningIn(progress)) <= 1
        /\ \A i, j \in 1..Len(Catalog) :
               i < j => StatusRank(StatusOf(progress, Catalog[i]))
                            <= StatusRank(StatusOf(progress, Catalog[j]))


\* C36: the exhausted state is absorbing: once currentLearningId is null no
\* step of the scene composes a round, changes the progress state or writes
\* storage.
ExhaustedAbsorbing ==
    [][(/\ progress # NoProgress
        /\ progress.currentLearningId = Null)
       => /\ progress' = progress
          /\ storage' = storage
          /\ roundVars' = roundVars
          /\ leftPrompt' = FALSE \/ leftPrompt' = leftPrompt]_vars


\* C37: in every state the scene reaches, a symbol that is not LEARNING has
\* success streak 0 and no stage-4 success, and a NOT_INTRODUCED symbol has
\* no attempt and an empty window.
IdleSymbolsAtRest ==
    progress # NoProgress =>
        \A id \in CatalogIds :
            LET e == progress.symbols[id]
            IN  /\ e.status # "LEARNING" =>
                     e.success_streak = 0 /\ ~e.stage4_success
                /\ e.status = "NOT_INTRODUCED" =>
                     e.total_attempts = 0 /\ e.recent = << >>

\* A symbol promoted in this stay, at rest after its streak, next to a
\* symbol not yet introduced.
IdleSymbolsAtRestWitness ==
    /\ progress # NoProgress
    /\ lastCall.ok /\ lastCall.ret
    /\ progress.symbols[lastCall.targetId].status = "LEARNED"
    /\ progress.symbols[lastCall.targetId].total_attempts > 0
    /\ \E id \in CatalogIds : progress.symbols[id].status = "NOT_INTRODUCED"


\* A step that records a drop of a wrong card on the prompt.
IsMiss ==
    /\ lastEvent'.kind = "drop"
    /\ calls' = calls + 1
    /\ ~lastCall'.ok

\* C38: a wrong card dropped on the prompt composes no round: target,
\* options, stage used and the prompt and cards on screen stay as they are
\* and no animation that ends in a composition starts; the round fields
\* change only on scene start or at the end of the animation of a correct
\* drop.
MissKeepsRound ==
    [][/\ IsMiss =>
            /\ roundVars' = roundVars
            /\ leftPrompt' = leftPrompt
            /\ draggables' = draggables
            /\ tweens' = tweens
       /\ roundVars' # roundVars =>
            phase = "entered" \/ tweens' = Tail(tweens)
       /\ Len(tweens') > Len(tweens) =>
            calls' = calls + 1 /\ lastCall'.ok]_vars

\* A wrong card was dropped on the prompt of a round with several options,
\* the attempt was recorded and the round is still open.
MissKeepsRoundWitness ==
    /\ phase = "running"
    /\ lastEvent = Event("drop", TRUE)
    /\ ~lastCall.ok
    /\ lastCall.targetId = correctId
    /\ calls > 0
    /\ leftPrompt
    /\ Len(optionIds) > 1
    /\ draggables = optionIds
    /\ tweens = << >>


AllHits(recent) ==
    /\ Len(recent) = WINDOW_ATTEMPTS
    /\ \A i \in 1..Len(recent) : recent[i]

\* C33: eight correct attempts in a row on the learning target, one per
\* composed learning round, contain a promotion of that symbol: the learning
\* symbol never has a full window of correct attempts behind it.
EightHitsPromote ==
    (progress # NoProgress /\ progress.currentLearningId # Null) =>
        ~AllHits(progress.symbols[progress.currentLearningId].recent)


\* The longest run: after two wrong drops the learning symbol is promoted on
\* the seventh correct drop in a row, with a review round answered in
\* between.
EightHitsPromoteWitness ==
    /\ progress # NoProgress
    /\ lastCall.ok /\ lastCall.ret
    /\ LET e == progress.symbols[lastCall.targetId]
       IN  /\ e.status = "LEARNED"
           /\ e.recent = <<FALSE, TRUE, TRUE, TRUE, TRUE, TRUE, TRUE, TRUE>>
           /\ e.total_attempts = 9
           /\ e.last_seen_timestamp = nowMs(calls)
    /\ calls = 10


\* Every catalog symbol is LEARNED, none is current, and as many calls
\* returned true as the catalog has symbols.
CatalogDone ==
    /\ progress # NoProgress
    /\ progress.currentLearningId = Null
    /\ \A id \in CatalogIds : StatusOf(progress, id) = "LEARNED"
    /\ calls - spent = NumSymbols

=============================================================================
